---- MODULE Spec2Model ----
(***************************************************************************)
(* Seat allocation and entitlement validation of the licensing server      *)
(* (src/src/services/license_service.py), its per-device trial gate        *)
(* (src/src/services/trial_service.py) and its audit writer (src/src/      *)
(* services/audit_service.py) over their MySQL store (src/src/db.py: one   *)
(* autocommit connection per statement, so every db.query / db.execute is  *)
(* one atomic step and nothing holds across two of them).                  *)
(*                                                                         *)
(* Time is an integer count of clock ticks; TicksPerMs ticks make one      *)
(* millisecond.  datetime.now() has sub-millisecond resolution, while      *)
(* _now_str() cuts the instant down to whole milliseconds.                 *)
(***************************************************************************)
EXTENDS Integers, FiniteSets, Sequences, TLC

\* Python None / SQL NULL, for instants and row ids (all of them >= 0).
NULL == -1

\* ---- bounds of the model
\* The clock stops at MaxClock ticks; seat_allocations.id stops at MaxId; the
\* entitlement's max_seats is any of 1..MaxSeats.
MaxClock == 3
MaxId == 2
MaxSeats == 1

\* ---- program constants, scaled to the model's clock
\* _now_str() keeps milliseconds of an instant that has microseconds: the number of
\* clock ticks in one millisecond.
TicksPerMs == 2

\* HEARTBEAT_TTL_SECONDS * 1000, HEARTBEAT_TTL_SECONDS being set from the environment.
HEARTBEAT_TTL_MS == 1

Procs == {"p1", "p2"}
Devices == {"dev-1", "dev-2"}
\* The one entitlement of the store, and the values requests may carry.
LicenseKey == "LIC-ACME-001"
OrgId == "acme-corp"
LicenseKeys == {LicenseKey, "LIC-UNKNOWN"}
OrgIds == {OrgId, "other-org"}
Statuses == {"active", "suspended"}

\* ---- outcomes (the "error" strings of the returned dicts)
LicenseNotFound == "License not found"
LicenseInactive == "License is not active"
OrgMismatch == "Organization does not match license"
Expired == "License has expired"
NotYetValid == "License is not yet valid"
NoSeatsAvailable == "No seats available. Maximum active seats in use."
EntitlementNotActiveForOrg == "License not found or not active for this organization"
NoAllocation == "No seat allocation found for this device. Call validate first."
AllocationExpired == "Seat allocation has expired. Call validate to reallocate."
LicenseNotFoundForOrg == "License not found for this organization"
NoAllocationFound == "No seat allocation found for this device"
InternalServerError == "Internal server error"
NoError == ""

VARIABLES
    clock,          \* the current instant, in ticks
    entitlements,   \* table license_entitlements (read-only to the service)
    seats,          \* table seat_allocations: a set of rows
    nextId,         \* AUTO_INCREMENT counter of seat_allocations.id
    procs,          \* the request handlers in flight: position and locals
    response,       \* the dict the step just taken returned to its caller, if it returned
    audited,        \* the events the step just taken handed to audit(), in order
    audit_up,       \* whether an INSERT INTO audit_log succeeds at present
    devices,        \* table devices: device_id -> its row, or NoDevice
    trials,         \* the validate_trial handlers in flight: position and locals
    TRIAL_DURATION_MS   \* trial_service.TRIAL_DURATION_MS, fixed at import: NULL is None

vars == <<clock, entitlements, seats, nextId, procs, response,
          audited, audit_up, devices, trials, TRIAL_DURATION_MS>>

\* What the seat calls leave alone, and what the trial calls leave alone.
trialVars == <<devices, trials, TRIAL_DURATION_MS>>
licenseVars == <<entitlements, seats, nextId, procs>>

\* ---- time
_now_str(t) == t - (t % TicksPerMs)

is_allocation_active_at_ttl(last_heartbeat_at, now) ==
    IF last_heartbeat_at = NULL THEN FALSE
    ELSE (now - last_heartbeat_at) <= HEARTBEAT_TTL_MS * TicksPerMs

is_allocation_active(last_heartbeat_at, now) ==
    IF last_heartbeat_at = NULL THEN FALSE
    ELSE (now - last_heartbeat_at) < HEARTBEAT_TTL_MS * TicksPerMs

\* ---- rows and returned dicts
IdleProc ==
    [pc |-> "idle", device_id |-> "", now |-> NULL,
     entitlement_id |-> NULL, max_seats |-> NULL, existing |-> NULL]

Failure(error) ==
    [success |-> FALSE, error |-> error, seat_id |-> NULL,
     reattach |-> FALSE, was_stale |-> FALSE]

\* {"success": True, "allocation": {"seat_id", "reattach"}}: no branch returns was_stale.
Allocation(seat_id, reattach) ==
    [success |-> TRUE, error |-> NoError, seat_id |-> seat_id,
     reattach |-> reattach, was_stale |-> FALSE]

\* {"success": True} of heartbeat and release.
Success ==
    [success |-> TRUE, error |-> NoError, seat_id |-> NULL,
     reattach |-> FALSE, was_stale |-> FALSE]

NoResponse ==
    [success |-> FALSE, error |-> NoError, seat_id |-> NULL,
     reattach |-> FALSE, was_stale |-> FALSE]

\* ---- audit_service.audit, and the route around a service call
NoAudit == <<>>

\* The row audit() hands to INSERT INTO audit_log: the action tag and, of the payload,
\* its "reason", "reattach" and "was_stale" entries ("" and FALSE when absent).
AuditEvent(action, reason, reattach, was_stale) ==
    [action |-> action, reason |-> reason,
     reattach |-> reattach, was_stale |-> was_stale]

audit(event) == <<event>>

audit_raises_on_failure(written) == ~written

\* audit_service.py lines 25-31: the INSERT runs inside try/except Exception, which
\* logs the failure and returns; written is whether the INSERT succeeded.
audit_raises(written) == FALSE

\* The route's try/except around the service call: the service's dict, or the 500
\* body when the service raised.
returned(result, raised, error_body) == IF raised THEN error_body ELSE result

Entitlement(max_seats, status, valid_from, valid_until) ==
    [id |-> 1, org_id |-> OrgId, license_key |-> LicenseKey,
     max_seats |-> max_seats, status |-> status,
     valid_from |-> valid_from, valid_until |-> valid_until]

\* ---- validate: the entitlement checks
EntitlementByKey(license_key) ==
    {e \in entitlements : e.license_key = license_key}

validate_checks_not_yet_valid_first(found, org_id, now) ==
    IF found = {} THEN LicenseNotFound
    ELSE LET entitlement == CHOOSE e \in found : TRUE IN
         IF entitlement.status # "active" THEN LicenseInactive
         ELSE IF entitlement.org_id # org_id THEN OrgMismatch
         ELSE IF entitlement.valid_from # NULL /\ entitlement.valid_from > now
              THEN NotYetValid
         ELSE IF entitlement.valid_until # NULL /\ entitlement.valid_until < now
              THEN Expired
         ELSE NoError

validate_checks(found, org_id, now) ==
    IF found = {} THEN LicenseNotFound
    ELSE LET entitlement == CHOOSE e \in found : TRUE IN
         IF entitlement.status # "active" THEN LicenseInactive
         ELSE IF entitlement.org_id # org_id THEN OrgMismatch
         ELSE IF entitlement.valid_until # NULL /\ entitlement.valid_until < now
              THEN Expired
         ELSE IF entitlement.valid_from # NULL /\ entitlement.valid_from > now
              THEN NotYetValid
         ELSE NoError

\* ---- the seat store
\* A row of seat_allocations, by the columns the decisions read (hostname, os,
\* app_version, client_ip, allocated_at and updated_at are written and never read).
Seat(id, entitlement_id, device_id, last_heartbeat_at) ==
    [id |-> id, entitlement_id |-> entitlement_id, device_id |-> device_id,
     last_heartbeat_at |-> last_heartbeat_at]

\* SELECT ... FROM seat_allocations WHERE entitlement_id = %s
SeatsOfEntitlement(table, entitlement_id) ==
    {r \in table : r.entitlement_id = entitlement_id}

\* SELECT ... WHERE entitlement_id = %s AND device_id = %s
SeatsOfDevice(table, entitlement_id, device_id) ==
    {r \in table : r.entitlement_id = entitlement_id /\ r.device_id = device_id}

\* The rows next(...) / query_one may return: any matching row (the SELECT has no
\* ORDER BY), or None when there is none.
NoRow == Seat(NULL, NULL, "", NULL)

FirstOf(rows) == IF rows = {} THEN {NoRow} ELSE rows

\* UPDATE seat_allocations SET last_heartbeat_at = %s, ... WHERE id = %s
UpdateSeat(table, id, now) ==
    {IF r.id = id THEN [r EXCEPT !.last_heartbeat_at = now] ELSE r : r \in table}

\* The key of seat_allocations on (entitlement_id, device_id): an INSERT of a second
\* row for the pair raises, and the route answers 500.
DuplicateKeyNotEnforced(table, entitlement_id, device_id) == FALSE

DuplicateKey(table, entitlement_id, device_id) ==
    SeatsOfDevice(table, entitlement_id, device_id) # {}

DeleteSeats_of_entitlement(table, entitlement_id, device_id) ==
    IF SeatsOfDevice(table, entitlement_id, device_id) = {} THEN table
    ELSE table \ SeatsOfEntitlement(table, entitlement_id)

\* DELETE FROM seat_allocations WHERE entitlement_id = %s AND device_id = %s
DeleteSeats(table, entitlement_id, device_id) ==
    table \ SeatsOfDevice(table, entitlement_id, device_id)

\* ---- validate: the seat decision
active_count_of(active_rows, now) ==
    Cardinality({r \in active_rows : is_allocation_active(r.last_heartbeat_at, now)})

no_seats_when_over(active_count, max_seats, existing) ==
    active_count > max_seats /\ existing = NULL

no_seats_ignoring_existing(active_count, max_seats, existing) ==
    active_count >= max_seats

no_seats(active_count, max_seats, existing) ==
    active_count >= max_seats /\ existing = NULL

validate_branch_no_reattach(active_count, max_seats, existing, now) ==
    IF no_seats(active_count, max_seats, existing.id) THEN "no_seats"
    ELSE IF existing.id # NULL THEN "validate_reclaim"
    ELSE "validate_insert"

validate_branch(active_count, max_seats, existing, now) ==
    IF existing.id # NULL /\ is_allocation_active(existing.last_heartbeat_at, now)
    THEN "validate_reattach"
    ELSE IF no_seats(active_count, max_seats, existing.id) THEN "no_seats"
    ELSE IF existing.id # NULL THEN "validate_reclaim"
    ELSE "validate_insert"

\* Lines 85-111: the handler after its read of the allocation set.
validate_decide(proc, table, existing, now) ==
    LET active_rows == SeatsOfEntitlement(table, proc.entitlement_id)
        active_count == active_count_of(active_rows, now)
    IN [proc EXCEPT !.pc = validate_branch(active_count, proc.max_seats, existing, now),
                    !.existing = existing.id]

\* Lines 94-99, 112-117, 119-124: the write of the branch taken, and the dict returned.
validate_write_recounting(proc, table, next_id) ==
    IF proc.pc = "validate_insert"
    THEN IF \/ DuplicateKey(table, proc.entitlement_id, proc.device_id)
            \/ Cardinality(SeatsOfEntitlement(table, proc.entitlement_id)) >= proc.max_seats
         THEN [seats |-> table, nextId |-> next_id,
               response |-> Failure(NoSeatsAvailable)]
         ELSE [seats |-> table \cup {Seat(next_id, proc.entitlement_id,
                                          proc.device_id, _now_str(proc.now))},
               nextId |-> next_id + 1,
               response |-> Allocation(next_id, FALSE)]
    ELSE [seats |-> UpdateSeat(table, proc.existing, proc.now),
          nextId |-> next_id,
          response |-> Allocation(proc.existing, proc.pc = "validate_reattach")]

validate_write_reusing_stale(proc, table, next_id) ==
    LET stale == {r \in SeatsOfEntitlement(table, proc.entitlement_id) :
                     ~is_allocation_active(r.last_heartbeat_at, proc.now)}
    IN
    IF proc.pc = "validate_insert" /\ stale # {}
    THEN LET r == CHOOSE x \in stale : TRUE IN
         [seats |-> (table \ {r}) \cup {Seat(r.id, r.entitlement_id, proc.device_id,
                                             proc.now)},
          nextId |-> next_id,
          response |-> Allocation(r.id, FALSE)]
    ELSE IF proc.pc = "validate_insert"
    THEN [seats |-> table \cup {Seat(next_id, proc.entitlement_id, proc.device_id,
                                     _now_str(proc.now))},
          nextId |-> next_id + 1,
          response |-> Allocation(next_id, FALSE)]
    ELSE [seats |-> UpdateSeat(table, proc.existing, proc.now),
          nextId |-> next_id,
          response |-> Allocation(proc.existing, proc.pc = "validate_reattach")]

validate_write_insert_before_count(proc, table, next_id) ==
    IF proc.pc = "validate_insert"
    THEN IF DuplicateKey(table, proc.entitlement_id, proc.device_id)
         THEN [seats |-> table, nextId |-> next_id,
               response |-> Failure(InternalServerError)]
         ELSE LET inserted == table \cup {Seat(next_id, proc.entitlement_id,
                                               proc.device_id, _now_str(proc.now))}
              IN [seats |-> inserted,
                  nextId |-> next_id + 1,
                  response |->
                     IF Cardinality(SeatsOfEntitlement(inserted, proc.entitlement_id))
                           > proc.max_seats
                     THEN Failure(NoSeatsAvailable)
                     ELSE Allocation(next_id, FALSE)]
    ELSE [seats |-> UpdateSeat(table, proc.existing, proc.now),
          nextId |-> next_id,
          response |-> Allocation(proc.existing, proc.pc = "validate_reattach")]

validate_write(proc, table, next_id) ==
    IF proc.pc = "validate_insert"
    THEN IF DuplicateKey(table, proc.entitlement_id, proc.device_id)
         THEN [seats |-> table, nextId |-> next_id,
               response |-> Failure(InternalServerError)]
         ELSE [seats |-> table \cup {Seat(next_id, proc.entitlement_id,
                                          proc.device_id, _now_str(proc.now))},
               nextId |-> next_id + 1,
               response |-> Allocation(next_id, FALSE)]
    ELSE [seats |-> UpdateSeat(table, proc.existing, proc.now),
          nextId |-> next_id,
          response |-> Allocation(proc.existing, proc.pc = "validate_reattach")]

\* ---- heartbeat
heartbeat_entitlement_in_window(license_key, org_id) ==
    {e \in entitlements : /\ e.license_key = license_key
                          /\ e.org_id = org_id
                          /\ e.status = "active"
                          /\ (e.valid_until = NULL \/ e.valid_until >= clock)}

\* SELECT id FROM license_entitlements WHERE license_key AND org_id AND status = 'active'
heartbeat_entitlement(license_key, org_id) ==
    {e \in entitlements : /\ e.license_key = license_key
                          /\ e.org_id = org_id
                          /\ e.status = "active"}

heartbeat_check_no_ttl(alloc, now) ==
    IF alloc.id = NULL THEN NoAllocation ELSE NoError

heartbeat_check(alloc, now) ==
    IF alloc.id = NULL THEN NoAllocation
    ELSE IF ~is_allocation_active(alloc.last_heartbeat_at, now) THEN AllocationExpired
    ELSE NoError

\* ---- release
\* SELECT id FROM license_entitlements WHERE license_key = %s AND org_id = %s
release_entitlement_active_only(license_key, org_id) ==
    {e \in entitlements : /\ e.license_key = license_key
                          /\ e.org_id = org_id
                          /\ e.status = "active"}

release_entitlement(license_key, org_id) ==
    {e \in entitlements : e.license_key = license_key /\ e.org_id = org_id}

release_result_always_success(rowcount) == Success

release_result(rowcount) ==
    IF rowcount = 0 THEN Failure(NoAllocationFound) ELSE Success

\* ---- the audit event of each branch of validate, heartbeat and release
\* The "reason" a refusal of validate is audited with (lines 62-81 and 101-107).
validate_fail_reason(error) ==
    IF error = LicenseNotFound THEN "license_not_found"
    ELSE IF error = LicenseInactive THEN "license_inactive"
    ELSE IF error = OrgMismatch THEN "org_mismatch"
    ELSE IF error = Expired THEN "license_expired"
    ELSE IF error = NotYetValid THEN "license_not_yet_valid"
    ELSE "max_seats_exceeded"

validate_fail_audit_twice(error) ==
    audit(AuditEvent("validate_fail", validate_fail_reason(error), FALSE, FALSE))
        \o audit(AuditEvent("validate_fail", validate_fail_reason(error), FALSE, FALSE))

validate_fail_audit(error) ==
    audit(AuditEvent("validate_fail", validate_fail_reason(error), FALSE, FALSE))

\* Lines 98, 116 and 123: {"reattach": True}, {"reattach": False, "was_stale": True}
\* and {"reattach": False}.  An INSERT that raised is followed by no audit.
validate_write_audit(proc, result) ==
    IF result.response.success
    THEN audit(AuditEvent("validate_success", "",
                          proc.pc = "validate_reattach", proc.pc = "validate_reclaim"))
    ELSE NoAudit

\* Line 159, reached by the successful heartbeat only.
heartbeat_audit_on_failure(error) ==
    audit(AuditEvent("heartbeat", "", FALSE, FALSE))

heartbeat_audit(error) ==
    IF error = NoError THEN audit(AuditEvent("heartbeat", "", FALSE, FALSE)) ELSE NoAudit

\* Line 183, reached by the successful release only.
release_audit(result) ==
    IF result.success THEN audit(AuditEvent("release", "", FALSE, FALSE)) ELSE NoAudit

\* ---- the trial gate (trial_service.py)
TrialExpired == "Trial has expired"

\* org_id absent from the request ("org_id or None"), NULL in the row.
NoOrg == ""
TrialOrgIds == OrgIds \cup {NoOrg}

\* {"success": True, "trial_active": True, "first_use", "expires_at"}
TrialSuccess(first_use, expires_at) ==
    [success |-> TRUE, error |-> NoError, trial_active |-> TRUE,
     first_use |-> first_use, expires_at |-> expires_at]

\* {"success": False, "error", "trial_active": False}, and the route's 500 body.
TrialFailure(error) ==
    [success |-> FALSE, error |-> error, trial_active |-> FALSE,
     first_use |-> FALSE, expires_at |-> NULL]

IdleTrial ==
    [pc |-> "idle", device_id |-> "", org_id |-> NoOrg, now_ts |-> NULL,
     trial_start_ts |-> NULL, set_trial_used |-> FALSE]

\* A row of devices: the columns the gate reads or decides on (metadata, whose
\* latest value wins, is read by no decision and is left out).
Device(org_id, first_seen_at, last_seen_at, trial_used_at) ==
    [org_id |-> org_id, first_seen_at |-> first_seen_at,
     last_seen_at |-> last_seen_at, trial_used_at |-> trial_used_at]

\* query_one found no row for the device_id.
NoDevice == Device(NoOrg, NULL, NULL, NULL)

COALESCE(a, b, null) == IF a # null THEN a ELSE b

upsert_device_overwriting(table, device_id, org_id, set_trial_used, t) ==
    LET now_str == _now_str(t)
        trial_used_at == IF set_trial_used THEN now_str ELSE NULL
        old == table[device_id]
    IN [table EXCEPT ![device_id] =
           IF old = NoDevice
           THEN Device(org_id, now_str, now_str, trial_used_at)
           ELSE Device(org_id, old.first_seen_at, now_str, trial_used_at)]

\* Lines 18-34: INSERT ... ON DUPLICATE KEY UPDATE, one statement, on the table's key
\* device_id.  now_str is read here (line 20), at the instant t of the write.
upsert_device(table, device_id, org_id, set_trial_used, t) ==
    LET now_str == _now_str(t)
        trial_used_at == IF set_trial_used THEN now_str ELSE NULL
        old == table[device_id]
    IN [table EXCEPT ![device_id] =
           IF old = NoDevice
           THEN Device(org_id, now_str, now_str, trial_used_at)
           ELSE Device(COALESCE(old.org_id, org_id, NoOrg),
                       old.first_seen_at,
                       now_str,
                       COALESCE(old.trial_used_at, trial_used_at, NULL))]

\* Line 60: trial_used_at or first_seen_at.
trial_start_of(device) ==
    IF device.trial_used_at # NULL THEN device.trial_used_at ELSE device.first_seen_at

trial_expired_after(now_ts, trial_start_ts, duration_ms) ==
    duration_ms # NULL /\ (now_ts - trial_start_ts) > duration_ms * TicksPerMs

\* Line 68: TRIAL_DURATION_MS and (now_ts - trial_start_ts) >= TRIAL_DURATION_MS.
trial_expired(now_ts, trial_start_ts, duration_ms) ==
    duration_ms # NULL /\ (now_ts - trial_start_ts) >= duration_ms * TicksPerMs

\* Lines 54, 68 and 73: the branch taken on the row read.
trial_branch(device, now_ts, duration_ms) ==
    IF device = NoDevice THEN "trial_first"
    ELSE IF trial_expired(now_ts, trial_start_of(device), duration_ms)
    THEN "trial_expired"
    ELSE "trial_continue"

\* The handler after its read of the device's row: the branch, trial_start_ts, and
\* the set_trial_used it will pass to upsert_device (lines 55, 69 and 73).
trial_decide(trial, device, duration_ms) ==
    LET branch == trial_branch(device, trial.now_ts, duration_ms) IN
    [trial EXCEPT !.pc = branch,
                  !.trial_start_ts = IF device = NoDevice THEN NULL
                                     ELSE trial_start_of(device),
                  !.set_trial_used = IF branch = "trial_first" THEN TRUE
                                     ELSE IF branch = "trial_expired" THEN FALSE
                                     ELSE device.trial_used_at = NULL]

\* Lines 57 and 74: the instant ts plus the duration, or None.
expires_at(ts, duration_ms) ==
    IF duration_ms # NULL THEN ts + duration_ms * TicksPerMs ELSE NULL

\* Lines 58, 71 and 75: the dict returned by the branch taken.
trial_result(trial, duration_ms) ==
    IF trial.pc = "trial_first"
    THEN TrialSuccess(TRUE, expires_at(trial.now_ts, duration_ms))
    ELSE IF trial.pc = "trial_expired" THEN TrialFailure(TrialExpired)
    ELSE TrialSuccess(FALSE, expires_at(trial.trial_start_ts, duration_ms))

trial_audit_every_branch(trial) ==
    IF trial.pc = "trial_first"
    THEN audit(AuditEvent("trial_start", "", FALSE, FALSE))
    ELSE IF trial.pc = "trial_expired"
    THEN audit(AuditEvent("trial_validate_fail", "trial_expired", FALSE, FALSE))
    ELSE audit(AuditEvent("trial_validate", "", FALSE, FALSE))

\* Lines 56 and 70; the continuing branch (lines 73-75) calls no audit.
trial_audit(trial) ==
    IF trial.pc = "trial_first"
    THEN audit(AuditEvent("trial_start", "", FALSE, FALSE))
    ELSE IF trial.pc = "trial_expired"
    THEN audit(AuditEvent("trial_validate_fail", "trial_expired", FALSE, FALSE))
    ELSE NoAudit

\* The store after setup: one entitlement, active and with an open validity window,
\* no allocation, no device row; the audit table reachable; no trial duration set
\* (TRIAL_DURATION_SECONDS defaults to 0).
Init ==
    /\ clock = 0
    /\ \E max_seats \in 1..MaxSeats :
          entitlements = {Entitlement(max_seats, "active", NULL, NULL)}
    /\ seats = {}
    /\ nextId = 1
    /\ procs = [p \in Procs |-> IdleProc]
    /\ response = NoResponse
    /\ audited = NoAudit
    /\ audit_up = TRUE
    /\ devices = [d \in Devices |-> NoDevice]
    /\ trials = [p \in Procs |-> IdleTrial]
    /\ TRIAL_DURATION_MS = NULL

\* Time passes between any two statements.
Tick ==
    /\ clock < MaxClock
    /\ clock' = clock + 1
    /\ response' = NoResponse
    /\ audited' = NoAudit
    /\ UNCHANGED <<entitlements, seats, nextId, procs, audit_up>>
    /\ UNCHANGED trialVars

\* The dict a call returns after the events it audited: audit() is the last call
\* before the return, so the route's 500 body takes the dict's place if it raises.
after_audit(result, events, written, error_body) ==
    IF events = NoAudit THEN result
    ELSE returned(result, audit_raises(written), error_body)

\* Lines 57-82: the entitlement lookup and checks.  now and now_str (lines 73-74) are
\* read here, before the allocation set is; the handler keeps now, and now_str is
\* _now_str of it.  A failed check is audited and returns at once.  written: whether
\* an INSERT INTO audit_log of this step succeeds.
ValidateStart(p, license_key, org_id, device_id, written) ==
    /\ procs[p].pc = "idle"
    /\ LET found == EntitlementByKey(license_key)
           error == validate_checks(found, org_id, clock)
       IN IF error # NoError
          THEN /\ audited' = validate_fail_audit(error)
               /\ response' = after_audit(Failure(error), audited', written,
                                          Failure(InternalServerError))
               /\ UNCHANGED procs
          ELSE LET entitlement == CHOOSE e \in found : TRUE IN
               /\ procs' = [procs EXCEPT ![p] =
                      [IdleProc EXCEPT !.pc = "validate_query",
                                       !.device_id = device_id,
                                       !.now = clock,
                                       !.entitlement_id = entitlement.id,
                                       !.max_seats = entitlement.max_seats]]
               /\ response' = NoResponse
               /\ audited' = NoAudit
    /\ UNCHANGED <<clock, entitlements, seats, nextId, audit_up>>
    /\ UNCHANGED trialVars

\* Lines 85-111 as one step: the read of the allocation set and the decision on it.
ValidateQuery(p, written) ==
    /\ procs[p].pc = "validate_query"
    /\ \E existing \in FirstOf(SeatsOfDevice(seats, procs[p].entitlement_id,
                                             procs[p].device_id)) :
          LET q == validate_decide(procs[p], seats, existing, clock) IN
          IF q.pc = "no_seats"
          THEN /\ audited' = validate_fail_audit(NoSeatsAvailable)
               /\ response' = after_audit(Failure(NoSeatsAvailable), audited', written,
                                          Failure(InternalServerError))
               /\ procs' = [procs EXCEPT ![p] = IdleProc]
          ELSE /\ procs' = [procs EXCEPT ![p] = q]
               /\ response' = NoResponse
               /\ audited' = NoAudit
    /\ UNCHANGED <<clock, entitlements, seats, nextId, audit_up>>
    /\ UNCHANGED trialVars

\* The UPDATE or INSERT of the branch taken, its audit, and the return.
ValidateWrite(p, written) ==
    /\ procs[p].pc \in {"validate_reattach", "validate_reclaim", "validate_insert"}
    /\ procs[p].pc = "validate_insert" => nextId <= MaxId
    /\ LET w == validate_write(procs[p], seats, nextId) IN
          /\ seats' = w.seats
          /\ nextId' = w.nextId
          /\ audited' = validate_write_audit(procs[p], w)
          /\ response' = after_audit(w.response, audited', written,
                                     Failure(InternalServerError))
    /\ procs' = [procs EXCEPT ![p] = IdleProc]
    /\ UNCHANGED <<clock, entitlements, audit_up>>
    /\ UNCHANGED trialVars

\* validate serialized per entitlement: the read of the allocation set, the decision
\* and the write are one step.
ValidateQueryWrite(p, written) ==
    /\ procs[p].pc = "validate_query"
    /\ \E existing \in FirstOf(SeatsOfDevice(seats, procs[p].entitlement_id,
                                             procs[p].device_id)) :
          LET q == validate_decide(procs[p], seats, existing, clock) IN
          IF q.pc = "no_seats"
          THEN /\ audited' = validate_fail_audit(NoSeatsAvailable)
               /\ response' = after_audit(Failure(NoSeatsAvailable), audited', written,
                                          Failure(InternalServerError))
               /\ UNCHANGED <<seats, nextId>>
          ELSE /\ q.pc = "validate_insert" => nextId <= MaxId
               /\ LET w == validate_write(q, seats, nextId) IN
                     /\ seats' = w.seats
                     /\ nextId' = w.nextId
                     /\ audited' = validate_write_audit(q, w)
                     /\ response' = after_audit(w.response, audited', written,
                                                Failure(InternalServerError))
    /\ procs' = [procs EXCEPT ![p] = IdleProc]
    /\ UNCHANGED <<clock, entitlements, audit_up>>
    /\ UNCHANGED trialVars

\* Lines 137-144: now is read first, then the entitlement.  The refusal is not audited.
HeartbeatStart(p, license_key, org_id, device_id) ==
    /\ procs[p].pc = "idle"
    /\ LET found == heartbeat_entitlement(license_key, org_id) IN
       IF found = {}
       THEN /\ response' = Failure(EntitlementNotActiveForOrg)
            /\ audited' = heartbeat_audit(EntitlementNotActiveForOrg)
            /\ UNCHANGED procs
       ELSE LET entitlement == CHOOSE e \in found : TRUE IN
            /\ procs' = [procs EXCEPT ![p] =
                   [IdleProc EXCEPT !.pc = "heartbeat_read",
                                    !.device_id = device_id,
                                    !.now = clock,
                                    !.entitlement_id = entitlement.id]]
            /\ response' = NoResponse
            /\ audited' = NoAudit
    /\ UNCHANGED <<clock, entitlements, seats, nextId, audit_up>>
    /\ UNCHANGED trialVars

\* Lines 146-153: the read of the device's row and the liveness check.
HeartbeatRead(p) ==
    /\ procs[p].pc = "heartbeat_read"
    /\ \E alloc \in FirstOf(SeatsOfDevice(seats, procs[p].entitlement_id,
                                          procs[p].device_id)) :
          LET error == heartbeat_check(alloc, clock) IN
          IF error # NoError
          THEN /\ response' = Failure(error)
               /\ audited' = heartbeat_audit(error)
               /\ procs' = [procs EXCEPT ![p] = IdleProc]
          ELSE /\ procs' = [procs EXCEPT ![p].pc = "heartbeat_update",
                                         ![p].existing = alloc.id]
               /\ response' = NoResponse
               /\ audited' = NoAudit
    /\ UNCHANGED <<clock, entitlements, seats, nextId, audit_up>>
    /\ UNCHANGED trialVars

\* Lines 155-160: the UPDATE by id, the audit, and the return.
HeartbeatUpdate(p, written) ==
    /\ procs[p].pc = "heartbeat_update"
    /\ seats' = UpdateSeat(seats, procs[p].existing, procs[p].now)
    /\ audited' = heartbeat_audit(NoError)
    /\ response' = after_audit(Success, audited', written, Failure(InternalServerError))
    /\ procs' = [procs EXCEPT ![p] = IdleProc]
    /\ UNCHANGED <<clock, entitlements, nextId, audit_up>>
    /\ UNCHANGED trialVars

\* heartbeat serialized per entitlement: read, check and UPDATE are one step.
HeartbeatReadUpdate(p, written) ==
    /\ procs[p].pc = "heartbeat_read"
    /\ \E alloc \in FirstOf(SeatsOfDevice(seats, procs[p].entitlement_id,
                                          procs[p].device_id)) :
          LET error == heartbeat_check(alloc, clock) IN
          /\ audited' = heartbeat_audit(error)
          /\ IF error # NoError
             THEN /\ response' = Failure(error)
                  /\ UNCHANGED seats
             ELSE /\ seats' = UpdateSeat(seats, alloc.id, procs[p].now)
                  /\ response' = after_audit(Success, audited', written,
                                             Failure(InternalServerError))
    /\ procs' = [procs EXCEPT ![p] = IdleProc]
    /\ UNCHANGED <<clock, entitlements, nextId, audit_up>>
    /\ UNCHANGED trialVars

\* Lines 170-184: the entitlement lookup, the DELETE, the return on its rowcount, and
\* the audit of a row deleted.  The entitlement table does not change between the
\* two statements, so they are one step.
Release(license_key, org_id, device_id, written) ==
    /\ LET found == release_entitlement(license_key, org_id) IN
       IF found = {}
       THEN /\ response' = Failure(LicenseNotFoundForOrg)
            /\ audited' = release_audit(Failure(LicenseNotFoundForOrg))
            /\ UNCHANGED seats
       ELSE LET entitlement == CHOOSE e \in found : TRUE
                rows == SeatsOfDevice(seats, entitlement.id, device_id)
                result == release_result(Cardinality(rows))
            IN /\ seats' = DeleteSeats(seats, entitlement.id, device_id)
               /\ audited' = release_audit(result)
               /\ response' = after_audit(result, audited', written,
                                          Failure(InternalServerError))
    /\ UNCHANGED <<clock, entitlements, nextId, procs, audit_up>>
    /\ UNCHANGED trialVars

\* ---- validate_trial
\* Line 47: now_ts is read first.
TrialStart(p, device_id, org_id) ==
    /\ trials[p].pc = "idle"
    /\ trials' = [trials EXCEPT ![p] =
           [IdleTrial EXCEPT !.pc = "trial_read",
                             !.device_id = device_id,
                             !.org_id = org_id,
                             !.now_ts = clock]]
    /\ response' = NoResponse
    /\ audited' = NoAudit
    /\ UNCHANGED <<clock, audit_up, devices, TRIAL_DURATION_MS>>
    /\ UNCHANGED licenseVars

\* Lines 49-73: the read of the device's row and the choice of the branch.
TrialRead(p) ==
    /\ trials[p].pc = "trial_read"
    /\ trials' = [trials EXCEPT ![p] =
           trial_decide(trials[p], devices[trials[p].device_id], TRIAL_DURATION_MS)]
    /\ response' = NoResponse
    /\ audited' = NoAudit
    /\ UNCHANGED <<clock, audit_up, devices, TRIAL_DURATION_MS>>
    /\ UNCHANGED licenseVars

\* upsert_device of the branch taken, its audit if it has one, and the return.
TrialUpsert(p, written) ==
    /\ trials[p].pc \in {"trial_first", "trial_expired", "trial_continue"}
    /\ devices' = upsert_device(devices, trials[p].device_id, trials[p].org_id,
                                trials[p].set_trial_used, clock)
    /\ audited' = trial_audit(trials[p])
    /\ response' = after_audit(trial_result(trials[p], TRIAL_DURATION_MS), audited',
                               written, TrialFailure(InternalServerError))
    /\ trials' = [trials EXCEPT ![p] = IdleTrial]
    /\ UNCHANGED <<clock, audit_up, TRIAL_DURATION_MS>>
    /\ UNCHANGED licenseVars

\* ---- the store's other writers
\* The audit_log table becomes unreachable, or reachable again.
AuditOutage ==
    /\ audit_up' = ~audit_up
    /\ response' = NoResponse
    /\ audited' = NoAudit
    /\ UNCHANGED clock
    /\ UNCHANGED licenseVars
    /\ UNCHANGED trialVars

\* Every call handled independently: any statement of one call may run between two
\* statements of another.  The calls name the entitlement and its organization.
Next ==
    \/ Tick
    \/ \E p \in Procs, d \in Devices :
          \/ ValidateStart(p, LicenseKey, OrgId, d, audit_up)
          \/ HeartbeatStart(p, LicenseKey, OrgId, d)
    \/ \E d \in Devices : Release(LicenseKey, OrgId, d, audit_up)
    \/ \E p \in Procs :
          \/ ValidateQuery(p, audit_up)
          \/ ValidateWrite(p, audit_up)
          \/ HeartbeatRead(p)
          \/ HeartbeatUpdate(p, audit_up)

Spec == Init /\ [][Next]_vars

\* Calls serialized per entitlement: each call's read of the allocation set and its
\* write are one step.
NextSerial ==
    \/ Tick
    \/ \E p \in Procs, d \in Devices :
          \/ ValidateStart(p, LicenseKey, OrgId, d, audit_up)
          \/ HeartbeatStart(p, LicenseKey, OrgId, d)
    \/ \E d \in Devices : Release(LicenseKey, OrgId, d, audit_up)
    \/ \E p \in Procs :
          \/ ValidateQueryWrite(p, audit_up)
          \/ HeartbeatReadUpdate(p, audit_up)

SpecSerial == Init /\ [][NextSerial]_vars

\* One handler, with any license key and organization, against an entitlement of
\* any status and validity window.
Windows == {NULL, 0, 2}

InitChecks ==
    /\ clock = 0
    /\ \E status \in Statuses, valid_from \in Windows, valid_until \in Windows :
          entitlements = {Entitlement(1, status, valid_from, valid_until)}
    /\ seats = {}
    /\ nextId = 1
    /\ procs = [p \in Procs |-> IdleProc]
    /\ response = NoResponse
    /\ audited = NoAudit
    /\ audit_up = TRUE
    /\ devices = [d \in Devices |-> NoDevice]
    /\ trials = [p \in Procs |-> IdleTrial]
    /\ TRIAL_DURATION_MS = NULL

\* license_entitlements is written out of band: the entitlement's status and
\* validity window are edited while allocations of it exist.
EditEntitlement(status, valid_from, valid_until) ==
    /\ entitlements' = {[e EXCEPT !.status = status,
                                  !.valid_from = valid_from,
                                  !.valid_until = valid_until] : e \in entitlements}
    /\ entitlements' # entitlements
    /\ response' = NoResponse
    /\ audited' = NoAudit
    /\ UNCHANGED <<clock, seats, nextId, procs, audit_up>>
    /\ UNCHANGED trialVars

NextChecks ==
    \/ Tick
    \/ \E k \in LicenseKeys, o \in OrgIds, d \in Devices :
          \/ ValidateStart("p1", k, o, d, audit_up)
          \/ HeartbeatStart("p1", k, o, d)
          \/ Release(k, o, d, audit_up)
    \/ ValidateQueryWrite("p1", audit_up)
    \/ HeartbeatReadUpdate("p1", audit_up)
    \/ \E status \in Statuses, valid_from \in Windows, valid_until \in Windows :
          EditEntitlement(status, valid_from, valid_until)

SpecChecks == InitChecks /\ [][NextChecks]_vars

\* ---- the trial gate alone: any interleaving of validate_trial calls
\* TRIAL_DURATION_SECONDS * 1000 when TRIAL_DURATION_SECONDS > 0.
FiniteTrialDurationMs == 1

\* The values of TRIAL_DURATION_MS (trial_service.py line 11): None, or the duration.
TrialDurations == {NULL, FiniteTrialDurationMs}

\* The devices table after setup: empty, or holding a row of dev-2 loaded with the
\* schema, on which no trial has been recorded.
SeededDevices ==
    {[d \in Devices |-> NoDevice],
     [d \in Devices |-> IF d = "dev-2" THEN Device(NoOrg, 0, 0, NULL) ELSE NoDevice]}

InitTrial ==
    /\ clock = 0
    /\ entitlements = {Entitlement(1, "active", NULL, NULL)}
    /\ seats = {}
    /\ nextId = 1
    /\ procs = [p \in Procs |-> IdleProc]
    /\ response = NoResponse
    /\ audited = NoAudit
    /\ audit_up = TRUE
    /\ devices \in SeededDevices
    /\ trials = [p \in Procs |-> IdleTrial]
    /\ TRIAL_DURATION_MS \in TrialDurations

NextTrial ==
    \/ Tick
    \/ \E p \in Procs, d \in Devices, o \in TrialOrgIds : TrialStart(p, d, o)
    \/ \E p \in Procs :
          \/ TrialRead(p)
          \/ TrialUpsert(p, audit_up)

SpecTrial == InitTrial /\ [][NextTrial]_vars

\* ---- every kind of call, one at a time, with the audit table failing at times;
\* the calls name the entitlement's organization and any license key
InitAudit ==
    /\ clock = 0
    /\ entitlements = {Entitlement(1, "active", NULL, NULL)}
    /\ seats = {}
    /\ nextId = 1
    /\ procs = [p \in Procs |-> IdleProc]
    /\ response = NoResponse
    /\ audited = NoAudit
    /\ audit_up = TRUE
    /\ devices = [d \in Devices |-> NoDevice]
    /\ trials = [p \in Procs |-> IdleTrial]
    /\ TRIAL_DURATION_MS \in TrialDurations

NextAudit ==
    \/ Tick
    \/ AuditOutage
    \/ \E k \in LicenseKeys, d \in Devices :
          /\ trials["p1"].pc = "idle"
          /\ \/ ValidateStart("p1", k, OrgId, d, audit_up)
             \/ HeartbeatStart("p1", k, OrgId, d)
             \/ Release(k, OrgId, d, audit_up)
    \/ ValidateQueryWrite("p1", audit_up)
    \/ HeartbeatReadUpdate("p1", audit_up)
    \/ /\ procs["p1"].pc = "idle"
       /\ TrialStart("p1", "dev-1", OrgId)
    \/ TrialRead("p1")
    \/ TrialUpsert("p1", audit_up)

SpecAudit == InitAudit /\ [][NextAudit]_vars

\* ---- time keeps passing
\* Each device runs one call at a time (client_sim.py: a client sends its validate,
\* its heartbeats and its release one after the other), the calls of different
\* devices interleave statement by statement, and a release may come from anywhere.
\* The wall clock is not the program's to stop: Tick is taken whenever it stays
\* enabled.
DeviceOf == "p1" :> "dev-1" @@ "p2" :> "dev-2"

NextLive ==
    \/ Tick
    \/ \E p \in Procs :
          \/ ValidateStart(p, LicenseKey, OrgId, DeviceOf[p], audit_up)
          \/ HeartbeatStart(p, LicenseKey, OrgId, DeviceOf[p])
    \/ \E d \in Devices : Release(LicenseKey, OrgId, d, audit_up)
    \/ \E p \in Procs :
          \/ ValidateQuery(p, audit_up)
          \/ ValidateWrite(p, audit_up)
          \/ HeartbeatRead(p)
          \/ HeartbeatUpdate(p, audit_up)

SpecLive == Init /\ [][NextLive]_vars /\ WF_vars(Tick)

\* ---------------------------------------------------------------------------
\* The properties.  They speak of the stored rows and the clock directly:
\* a row is active when its last heartbeat is less than the TTL old.
\* ---------------------------------------------------------------------------
TTL == HEARTBEAT_TTL_MS * TicksPerMs

Active(r, t) == r.last_heartbeat_at # NULL /\ t - r.last_heartbeat_at < TTL

ActiveSeats(table, entitlement_id, t) ==
    {r \in table : r.entitlement_id = entitlement_id /\ Active(r, t)}

WithinSeats(table, t) ==
    \A e \in entitlements : Cardinality(ActiveSeats(table, e.id, t)) <= e.max_seats

\* Some row's last_heartbeat_at was rewritten by the step (a reattach, a reclaim of
\* the device's own stale row, or a heartbeat).
RowRefreshed ==
    \E r \in seats : \E r2 \in seats' :
        r2.id = r.id /\ r2.last_heartbeat_at # r.last_heartbeat_at

\* The step by which handler p's serialized validate reads, decides and writes.
SerialValidateStep(p) == procs[p].pc = "validate_query" /\ procs'[p].pc = "idle"

\* C1: with validate's read of the allocation set and its write one atomic step, no
\* step other than the refresh of a row (so: validates from devices that hold no row,
\* releases, the passing of time) takes an entitlement from at most max_seats active
\* allocations to more; starting from the empty table, validates from distinct
\* devices with no heartbeats never exceed max_seats.
C1_SerializedValidatesKeepWithinSeats ==
    [][(WithinSeats(seats, clock) /\ ~RowRefreshed) => WithinSeats(seats', clock')]_vars

\* C1 witness: the entitlement is full and a further device has just been refused.
C1_Witness ==
    /\ response = Failure(NoSeatsAvailable)
    /\ \E e \in entitlements : Cardinality(ActiveSeats(seats, e.id, clock)) = e.max_seats
    /\ WithinSeats(seats, clock)

\* C2: unserialized, a validate that observed a free seat and no row of its device
\* inserts its row when its INSERT runs, whatever the allocation set has become
\* between its read and its write; the witness is the over-allocated state two
\* such validates reach.
C2_InsertDoesNotRecount ==
    [][\A p \in Procs :
          (/\ procs[p].pc = "validate_insert"
           /\ procs'[p].pc = "idle"
           /\ SeatsOfDevice(seats, procs[p].entitlement_id, procs[p].device_id) = {})
          => /\ response' = Allocation(nextId, FALSE)
             /\ seats' = seats \cup {Seat(nextId, procs[p].entitlement_id,
                                          procs[p].device_id, _now_str(procs[p].now))}
      ]_vars

\* C2 witness: at instant 0 (nothing has gone stale, no time has passed) an
\* entitlement with one seat holds two active rows of two devices, the second one
\* inserted by the step just taken.
C2_Witness ==
    /\ clock = 0
    /\ response = Allocation(2, FALSE)
    /\ \E e \in entitlements :
          /\ e.max_seats = 1
          /\ Cardinality(ActiveSeats(seats, e.id, clock)) = 2
          /\ \A r1, r2 \in seats : r1.device_id = r2.device_id => r1 = r2

\* C3: the table never holds two rows for one (entitlement_id, device_id), also
\* when validates for the same pair run concurrently.
C3_OneRowPerDevice ==
    \A e \in entitlements : \A d \in Devices :
        Cardinality(SeatsOfDevice(seats, e.id, d)) <= 1

\* C3 witness: two validates of one device both saw no row; the first inserted, the
\* second's INSERT has just been refused, and the pair has its one row.
C3_Witness ==
    /\ response = Failure(InternalServerError)
    /\ \E d \in Devices : Cardinality(SeatsOfDevice(seats, 1, d)) = 1

\* C4: a (serialized) validate of a device whose row is active returns
\* reattach=true with that row's id, sets the row's last_heartbeat_at to the call's
\* now, and leaves the pair with its one row, whatever the active count.
C4_ActiveDeviceReattaches ==
    [][\A p \in Procs :
          SerialValidateStep(p) =>
             \A r \in SeatsOfDevice(seats, procs[p].entitlement_id, procs[p].device_id) :
                Active(r, clock) =>
                   /\ response' = Allocation(r.id, TRUE)
                   /\ seats' = (seats \ {r})
                                 \cup {[r EXCEPT !.last_heartbeat_at = procs[p].now]}
                   /\ Cardinality(SeatsOfDevice(seats', procs[p].entitlement_id,
                                                procs[p].device_id)) = 1
      ]_vars

\* C4 witness: a reattach has just been returned while the entitlement is full.
C4_Witness ==
    /\ response.success /\ response.reattach
    /\ \E r \in seats : r.id = response.seat_id /\ r.last_heartbeat_at = clock
    /\ \E e \in entitlements : Cardinality(ActiveSeats(seats, e.id, clock)) >= e.max_seats

\* The step by which handler p's serialized heartbeat reads, checks and writes.
SerialHeartbeatStep(p) == procs[p].pc = "heartbeat_read" /\ procs'[p].pc = "idle"

\* The scenario's steps that the claim and the code agree on, on an entitlement with
\* max_seats = 1: the first device's validate on the empty table, the second
\* device's validate while the first one's row is active, and the first device's
\* heartbeat once its row is stale.
C5_AgreedSteps ==
    \A p \in Procs : \A e \in entitlements :
       LET d == procs[p].device_id
           fresh == Seat(nextId, e.id, d, _now_str(procs[p].now))
       IN
       /\ (SerialValidateStep(p) /\ seats = {})
             => /\ response' = Allocation(nextId, FALSE)
                /\ seats' = {fresh}
       /\ \A a \in seats :
             (/\ SerialValidateStep(p)
              /\ e.max_seats = 1 /\ seats = {a} /\ a.device_id # d
              /\ Active(a, clock))
             => /\ response' = Failure(NoSeatsAvailable)
                /\ seats' = seats
       /\ \A a \in seats :
             (/\ SerialHeartbeatStep(p)
              /\ a.device_id = d /\ ~Active(a, clock))
             => /\ response' = Failure(AllocationExpired)
                /\ seats' = seats

\* C5 as stated: ... and once A's TTL has lapsed, B's validate succeeds by reusing
\* A's stale row: no row is added and the outcome carries was_stale=true.
C5_Original_ReusesStaleRow ==
    [][/\ C5_AgreedSteps
       /\ \A p \in Procs : \A e \in entitlements : \A a \in seats :
             (/\ SerialValidateStep(p)
              /\ e.max_seats = 1 /\ seats = {a} /\ a.device_id # procs[p].device_id
              /\ ~Active(a, clock))
             => /\ response'.success
                /\ response'.was_stale
                /\ response'.seat_id = a.id
                /\ Cardinality(seats') = Cardinality(seats)
      ]_vars

\* C5 amended: max_seats = 1; A's validate succeeds with a new row; B's validate
\* while A's row is active fails with NoSeatsAvailable; once A's TTL has lapsed, B's
\* validate succeeds with a new row of its own (reattach=false, no was_stale), A's
\* stale row staying in the table untouched; A's heartbeat then fails with
\* AllocationExpired.
C5_StaleSeatFreesCapacity ==
    [][/\ C5_AgreedSteps
       /\ \A p \in Procs : \A e \in entitlements : \A a \in seats :
             (/\ SerialValidateStep(p)
              /\ e.max_seats = 1 /\ seats = {a} /\ a.device_id # procs[p].device_id
              /\ ~Active(a, clock))
             => /\ response' = Allocation(nextId, FALSE)
                /\ seats' = {a, Seat(nextId, e.id, procs[p].device_id,
                                     _now_str(procs[p].now))}
      ]_vars

\* C5 witness: the end of the scenario: A's row stale, B's newer row beside it, and
\* A's heartbeat just refused.
C5_Witness ==
    /\ response = Failure(AllocationExpired)
    /\ \E e \in entitlements : e.max_seats = 1
    /\ \E a, b \in seats :
          /\ seats = {a, b}
          /\ a.device_id # b.device_id
          /\ a.id < b.id
          /\ ~Active(a, clock)
          /\ Active(b, clock)

\* The step by which handler p's heartbeat reads its device's row and checks it.
HeartbeatReadStep(p) ==
    procs[p].pc = "heartbeat_read" /\ procs'[p].pc # "heartbeat_read"

\* C6: a heartbeat that finds no row of its device fails with NoAllocation, one that
\* finds the row stale fails with AllocationExpired, and neither changes the table.
C6_HeartbeatFailuresWriteNothing ==
    [][\A p \in Procs :
          HeartbeatReadStep(p) =>
             LET rows == SeatsOfDevice(seats, procs[p].entitlement_id,
                                       procs[p].device_id)
             IN /\ rows = {} => (response' = Failure(NoAllocation) /\ seats' = seats)
                /\ \A r \in rows :
                      ~Active(r, clock) =>
                         (response' = Failure(AllocationExpired) /\ seats' = seats)
      ]_vars

\* C6 witness: a heartbeat has just been refused while every row of the table,
\* its device's among them, is older than the TTL.
C6_Witness ==
    /\ response = Failure(AllocationExpired)
    /\ seats # {}
    /\ \A r \in seats : clock - r.last_heartbeat_at > TTL

\* C7: a release that finds the pair's row deletes it and succeeds, leaving the pair
\* without a row; a release that finds no row (as a second release does) fails with
\* NoAllocationFound and leaves the table as it was.
C7_ReleaseDeletesOnce ==
    [][\A d \in Devices : \A e \in entitlements :
          Release(e.license_key, e.org_id, d, audit_up) =>
             LET rows == SeatsOfDevice(seats, e.id, d) IN
             IF rows # {}
             THEN /\ response' = Success
                  /\ seats' = seats \ rows
                  /\ SeatsOfDevice(seats', e.id, d) = {}
             ELSE /\ response' = Failure(NoAllocationFound)
                  /\ seats' = seats
      ]_vars

\* C7 witness: every row ever allocated has been released and a further release has
\* just been refused.
C7_Witness ==
    /\ response = Failure(NoAllocationFound)
    /\ seats = {}
    /\ nextId > 1

\* The step by which handler p's validate reads the allocation set and decides.
ValidateQueryStep(p) ==
    procs[p].pc = "validate_query" /\ procs'[p].pc # "validate_query"

\* C8: is_allocation_active is exactly "now - last_heartbeat_at < HEARTBEAT_TTL"
\* (stale at the TTL, beyond it and without a heartbeat; active one millisecond
\* under it), and both validate's count and heartbeat's check decide by it.
C8_ActiveIffUnderTtl ==
    /\ \A now \in 0..(MaxClock + TTL) : \A lhb \in {NULL} \cup 0..now :
          is_allocation_active(lhb, now) <=> (lhb # NULL /\ now - lhb < TTL)
    /\ \A lhb \in 0..MaxClock :
          /\ ~is_allocation_active(lhb, lhb + TTL)
          /\ ~is_allocation_active(lhb, lhb + TTL + 1)
          /\ is_allocation_active(lhb, lhb + TTL - TicksPerMs)
    /\ ~is_allocation_active(NULL, MaxClock)
    /\ [][\A p \in Procs :
            LET rows == SeatsOfDevice(seats, procs[p].entitlement_id,
                                      procs[p].device_id)
                counted == Cardinality(ActiveSeats(seats, procs[p].entitlement_id,
                                                   clock))
            IN
            /\ (ValidateQueryStep(p) /\ rows = {})
                  => (response' = Failure(NoSeatsAvailable)
                        <=> counted >= procs[p].max_seats)
            /\ \A r \in rows :
                  /\ ValidateQueryStep(p)
                        => (procs'[p].pc = "validate_reattach" <=> Active(r, clock))
                  /\ HeartbeatReadStep(p)
                        => (response' = Failure(AllocationExpired) <=> ~Active(r, clock))
         ]_vars

\* C8 witness: a heartbeat has just been refused while every row of the table,
\* its device's among them, is exactly one TTL old.
C8_Witness ==
    /\ response = Failure(AllocationExpired)
    /\ seats # {}
    /\ \A r \in seats : clock - r.last_heartbeat_at = TTL

\* What a failed check leaves behind: the failure returned, no handler moved, no row
\* touched.
Refused(error) ==
    /\ response' = Failure(error)
    /\ procs' = procs
    /\ seats' = seats

\* C9 as stated: LicenseNotFound, LicenseInactive, OrgMismatch, NotYetValid, Expired,
\* in this order, the first failing check deciding.
C9_Original_NotYetValidBeforeExpired ==
    [][\A k \in LicenseKeys : \A o \in OrgIds : \A d \in Devices :
          ValidateStart("p1", k, o, d, audit_up) =>
             LET found == {e \in entitlements : e.license_key = k} IN
             IF found = {} THEN Refused(LicenseNotFound)
             ELSE \A e \in found :
                IF e.status # "active" THEN Refused(LicenseInactive)
                ELSE IF e.org_id # o THEN Refused(OrgMismatch)
                ELSE IF e.valid_from # NULL /\ clock < e.valid_from
                     THEN Refused(NotYetValid)
                ELSE IF e.valid_until # NULL /\ clock > e.valid_until
                     THEN Refused(Expired)
                ELSE procs'["p1"].pc = "validate_query"
      ]_vars

\* C9 amended: LicenseNotFound, then LicenseInactive, then OrgMismatch, then Expired
\* (now > valid_until), then NotYetValid (now < valid_from); a null bound never
\* fails, now equal to a bound is accepted, and the call goes on to the seat
\* decision only when every check passes.
C9_ChecksInCodeOrder ==
    [][\A k \in LicenseKeys : \A o \in OrgIds : \A d \in Devices :
          ValidateStart("p1", k, o, d, audit_up) =>
             LET found == {e \in entitlements : e.license_key = k} IN
             IF found = {} THEN Refused(LicenseNotFound)
             ELSE \A e \in found :
                IF e.status # "active" THEN Refused(LicenseInactive)
                ELSE IF e.org_id # o THEN Refused(OrgMismatch)
                ELSE IF e.valid_until # NULL /\ clock > e.valid_until
                     THEN Refused(Expired)
                ELSE IF e.valid_from # NULL /\ clock < e.valid_from
                     THEN Refused(NotYetValid)
                ELSE /\ procs'["p1"].pc = "validate_query"
                     /\ response' = NoResponse
                     /\ seats' = seats
      ]_vars

\* C9 witness: the entitlement is both past its valid_until and before its
\* valid_from, and Expired is what has just been returned.
C9_Witness ==
    /\ response = Failure(Expired)
    /\ \E e \in entitlements :
          /\ e.status = "active"
          /\ e.valid_from # NULL /\ clock < e.valid_from
          /\ e.valid_until # NULL /\ clock > e.valid_until

\* C10: a (serialized) validate that passed the entitlement checks is refused with
\* NoSeatsAvailable exactly when its device has no row and the active count is at
\* least max_seats; with no row and a lower count it inserts one row for the device
\* and returns it with reattach=false.
C10_NoSeatsIffFullAndNoRow ==
    [][\A p \in Procs :
          SerialValidateStep(p) =>
             LET rows == SeatsOfDevice(seats, procs[p].entitlement_id,
                                       procs[p].device_id)
                 counted == Cardinality(ActiveSeats(seats, procs[p].entitlement_id,
                                                    clock))
             IN
             /\ response' = Failure(NoSeatsAvailable)
                   <=> (rows = {} /\ counted >= procs[p].max_seats)
             /\ (rows = {} /\ counted < procs[p].max_seats)
                   => /\ response' = Allocation(nextId, FALSE)
                      /\ \E r \in seats' :
                            /\ r \notin seats
                            /\ r.id = nextId
                            /\ r.device_id = procs[p].device_id
                            /\ r.entitlement_id = procs[p].entitlement_id
                            /\ seats' = seats \cup {r}
      ]_vars

\* C10 witness: a device with no row has just been given a new one while another
\* device's stale row sits in the table.
C10_Witness ==
    /\ response.success /\ ~response.reattach
    /\ \E r, a \in seats :
          /\ r.id = response.seat_id /\ r.id = nextId - 1
          /\ a.device_id # r.device_id
          /\ ~Active(a, clock)

\* The rows of the device handler p is validating for, or heartbeating for.
OwnRows(p) == SeatsOfDevice(seats, procs[p].entitlement_id, procs[p].device_id)

\* C11 as stated: a validate of a device whose own row is stale rewrites that row in
\* place (same seat_id, as many rows after as before) and returns an allocation with
\* reattach=false and was_stale=true.
C11_Original_ReclaimReportsWasStale ==
    [][\A p \in Procs :
          (SerialValidateStep(p) /\ \E r \in OwnRows(p) : ~Active(r, clock))
          => \E r \in OwnRows(p) :
                /\ seats' = (seats \ {r})
                               \cup {[r EXCEPT !.last_heartbeat_at = procs[p].now]}
                /\ Cardinality(seats') = Cardinality(seats)
                /\ response' = [Allocation(r.id, FALSE) EXCEPT !.was_stale = TRUE]
      ]_vars

\* C12: release looks at the entitlement's key and organization and at the pair's
\* row, and at nothing else.  Whatever the entitlement's status and validity window,
\* a release naming its key and organization deletes the pair's row and succeeds
\* when there is one; a release naming an unknown key or another organization fails
\* with LicenseNotFoundForOrg and deletes nothing.
C12_ReleaseIgnoresStatusAndWindow ==
    [][\A k \in LicenseKeys : \A o \in OrgIds : \A d \in Devices :
          Release(k, o, d, audit_up) =>
             LET found == {e \in entitlements : e.license_key = k /\ e.org_id = o} IN
             IF found = {}
             THEN /\ response' = Failure(LicenseNotFoundForOrg)
                  /\ seats' = seats
             ELSE \A e \in found :
                     LET rows == SeatsOfDevice(seats, e.id, d) IN
                     rows # {} => /\ response' = Success
                                  /\ seats' = seats \ rows
      ]_vars

\* C12 witness: a release has just succeeded and left no row, on an entitlement that
\* is suspended, past its valid_until and before its valid_from.
C12_Witness ==
    /\ response = Success
    /\ audited = audit(AuditEvent("release", "", FALSE, FALSE))
    /\ seats = {}
    /\ \E e \in entitlements :
          /\ e.status # "active"
          /\ e.valid_until # NULL /\ e.valid_until < clock
          /\ e.valid_from # NULL /\ clock < e.valid_from

\* C13: a heartbeat naming no entitlement, another organization, or an entitlement
\* whose status is not active fails with EntitlementNotActiveForOrg and touches no
\* row.  The validity window is not looked at: with the key, organization and status
\* right the heartbeat goes on to the device's row, and when that row is active it is
\* refreshed and the heartbeat succeeds.
C13_HeartbeatChecksStatusNotWindow ==
    [][/\ \A k \in LicenseKeys : \A o \in OrgIds : \A d \in Devices :
             HeartbeatStart("p1", k, o, d) =>
                IF \E e \in entitlements :
                      e.license_key = k /\ e.org_id = o /\ e.status = "active"
                THEN /\ procs'["p1"].pc = "heartbeat_read"
                     /\ response' = NoResponse
                ELSE /\ response' = Failure(EntitlementNotActiveForOrg)
                     /\ seats' = seats
                     /\ procs' = procs
       /\ (SerialHeartbeatStep("p1") /\ \E r \in OwnRows("p1") : Active(r, clock))
             => /\ response' = Success
                /\ \E r \in OwnRows("p1") :
                      seats' = (seats \ {r})
                         \cup {[r EXCEPT !.last_heartbeat_at = procs["p1"].now]}
      ]_vars

\* C13 witness: a heartbeat has just succeeded and refreshed its row to an instant
\* after the valid_until of the entitlement, whose status is active.
C13_Witness ==
    /\ response = Success
    /\ audited = audit(AuditEvent("heartbeat", "", FALSE, FALSE))
    /\ \E e \in entitlements : \E r \in seats :
          /\ e.status = "active"
          /\ e.valid_until # NULL
          /\ e.valid_until < r.last_heartbeat_at
          /\ r.last_heartbeat_at = clock

\* The step by which handler p's validate_trial writes the device's row and returns.
TrialUpsertStep(p) ==
    /\ trials[p].pc \in {"trial_first", "trial_expired", "trial_continue"}
    /\ trials'[p].pc = "idle"

\* C14: under any interleaving of validate_trial calls, no step changes a device
\* row's trial_used_at once it is non-null, nor its org_id once it is non-null,
\* whatever org_id the writing call carries; the write of the expired path sets
\* last_seen_at and leaves trial_used_at as it was.
C14_TrialUsedAtAndOrgIdWriteOnce ==
    [][/\ \A d \in Devices :
             /\ devices[d].trial_used_at # NULL
                   => devices'[d].trial_used_at = devices[d].trial_used_at
             /\ devices[d].org_id # NoOrg
                   => devices'[d].org_id = devices[d].org_id
       /\ \A p \in Procs :
             (TrialUpsertStep(p) /\ trials[p].pc = "trial_expired")
             => LET d == trials[p].device_id IN
                /\ devices'[d].trial_used_at = devices[d].trial_used_at
                /\ devices'[d].last_seen_at = _now_str(clock)
      ]_vars

\* C14 witness: the expired path has just written a row whose org_id is set: its
\* last_seen_at is later than its trial_used_at.
C14_Witness ==
    /\ response = TrialFailure(TrialExpired)
    /\ \E d \in Devices :
          /\ devices[d].org_id # NoOrg
          /\ devices[d].trial_used_at # NULL
          /\ devices[d].last_seen_at > devices[d].trial_used_at

\* C15 as stated: with a finite trial duration, the validate_trial that creates a
\* device's row sets trial_used_at to the call's time (now_ts, the time expires_at is
\* counted from) and returns first_use=true, trial_active=true and
\* expires_at = now_ts + TRIAL_DURATION.
C15_Original_TrialUsedAtIsCallTime ==
    [][\A p \in Procs :
          (/\ TrialUpsertStep(p)
           /\ trials[p].pc = "trial_first"
           /\ devices[trials[p].device_id] = NoDevice
           /\ TRIAL_DURATION_MS # NULL)
          => LET d == trials[p].device_id IN
             /\ devices'[d].trial_used_at # NULL
             /\ devices'[d].trial_used_at = trials[p].now_ts
             /\ response' = TrialSuccess(TRUE, trials[p].now_ts
                                               + TRIAL_DURATION_MS * TicksPerMs)
      ]_vars

\* The step by which handler p's validate_trial reads the device's row and chooses
\* its branch.
TrialReadStep(p) == trials[p].pc = "trial_read" /\ trials'[p].pc # "trial_read"

\* C16: a validate_trial that finds a row for its device takes the expired path if
\* and only if a finite duration is set and the call's time is TRIAL_DURATION or
\* more past trial_start, which is the row's trial_used_at when set and its
\* first_seen_at otherwise, and takes the continuing path in every other case; the
\* expired path returns TrialExpired with success=false and trial_active=false, the
\* continuing path returns success with trial_active=true.
C16_ExpiredIffDurationReached ==
    [][\A p \in Procs :
          /\ (TrialReadStep(p) /\ devices[trials[p].device_id] # NoDevice)
                => LET row == devices[trials[p].device_id]
                       trial_start == IF row.trial_used_at # NULL
                                      THEN row.trial_used_at ELSE row.first_seen_at
                       reached == /\ TRIAL_DURATION_MS # NULL
                                  /\ trials[p].now_ts - trial_start
                                        >= TRIAL_DURATION_MS * TicksPerMs
                   IN /\ trials'[p].pc = "trial_expired" <=> reached
                      /\ trials'[p].pc = "trial_continue" <=> ~reached
          /\ (TrialUpsertStep(p) /\ trials[p].pc = "trial_expired")
                => /\ response' = TrialFailure(TrialExpired)
                   /\ ~response'.success /\ ~response'.trial_active
          /\ (TrialUpsertStep(p) /\ trials[p].pc = "trial_continue")
                => /\ response'.success /\ response'.trial_active
                   /\ ~response'.first_use
      ]_vars

\* C16 witness: the only row there is was written by a call that has just been
\* refused as expired, exactly TRIAL_DURATION after the row's trial_used_at.
C16_Witness ==
    /\ response = TrialFailure(TrialExpired)
    /\ \E d \in Devices :
          /\ \A d2 \in Devices \ {d} : devices[d2] = NoDevice
          /\ devices[d].trial_used_at # NULL
          /\ devices[d].last_seen_at = clock
          /\ clock - devices[d].trial_used_at = FiniteTrialDurationMs * TicksPerMs

\* The reason each refusal of validate is to be audited with.
ReasonOfRefusal ==
    [e \in {LicenseNotFound, LicenseInactive, OrgMismatch, Expired, NotYetValid,
            NoSeatsAvailable} |->
        CASE e = LicenseNotFound -> "license_not_found"
          [] e = LicenseInactive -> "license_inactive"
          [] e = OrgMismatch -> "org_mismatch"
          [] e = Expired -> "license_expired"
          [] e = NotYetValid -> "license_not_yet_valid"
          [] e = NoSeatsAvailable -> "max_seats_exceeded"]

\* C17: the step by which a validate returns emits exactly one audit event, and the
\* event names the branch: validate_fail with the refusal's reason for each of the
\* five entitlement failures and for NoSeatsAvailable, validate_success with
\* reattach=true for a reattach, with reattach=false and was_stale=true for the
\* reclaim of the device's stale row, and with reattach=false alone for a new
\* allocation; the steps of the call before its return emit none.
C17_ValidateAuditsEachBranchOnce ==
    [][/\ \A k \in LicenseKeys : \A o \in OrgIds : \A d \in Devices :
             ValidateStart("p1", k, o, d, audit_up) =>
                IF response' = NoResponse THEN audited' = NoAudit
                ELSE /\ response'.error \in DOMAIN ReasonOfRefusal \ {NoSeatsAvailable}
                     /\ audited' = <<AuditEvent("validate_fail",
                                        ReasonOfRefusal[response'.error], FALSE, FALSE)>>
       /\ SerialValidateStep("p1") =>
             /\ Len(audited') = 1
             /\ audited'[1] =
                  IF ~response'.success
                  THEN AuditEvent("validate_fail",
                                  ReasonOfRefusal[NoSeatsAvailable], FALSE, FALSE)
                  ELSE IF response'.reattach
                  THEN AuditEvent("validate_success", "", TRUE, FALSE)
                  ELSE AuditEvent("validate_success", "", FALSE, OwnRows("p1") # {})
             /\ ~response'.success => response' = Failure(NoSeatsAvailable)
      ]_vars

\* C17 witness: a device has just been refused for want of a seat, and the one event
\* of the step is validate_fail with reason max_seats_exceeded.
C17_Witness ==
    /\ response = Failure(NoSeatsAvailable)
    /\ audited = <<AuditEvent("validate_fail", "max_seats_exceeded", FALSE, FALSE)>>
    /\ \E r \in seats : Active(r, clock)

\* A call returns in the step that sets response.
Returns == response' # NoResponse

\* C18 as stated: every validate, heartbeat, release and validate_trial call that
\* returns, with success or with a business-rule failure, has emitted exactly one
\* audit event.
C18_Original_EveryCallAuditsOnce ==
    [][Returns => Len(audited') = 1]_vars

\* C18 amended: a validate emits exactly one event whatever its outcome; a heartbeat
\* and a release emit exactly one event (heartbeat, release) when they succeed and
\* none when they fail; a validate_trial emits exactly one event when it creates the
\* device's row (trial_start) or refuses an expired trial (trial_validate_fail) and
\* none when it succeeds for a device already known; no step before a call's return
\* emits any.
C18_AuditsPerCall ==
    [][/\ ~Returns => audited' = NoAudit
       /\ \A k \in LicenseKeys : \A d \in Devices :
             /\ (Returns /\ ValidateStart("p1", k, OrgId, d, audit_up))
                   => Len(audited') = 1 /\ audited'[1].action = "validate_fail"
             /\ (Returns /\ HeartbeatStart("p1", k, OrgId, d))
                   => ~response'.success /\ audited' = NoAudit
             /\ (Returns /\ Release(k, OrgId, d, audit_up))
                   => IF response'.success
                      THEN audited' = <<AuditEvent("release", "", FALSE, FALSE)>>
                      ELSE audited' = NoAudit
       /\ SerialValidateStep("p1")
             => /\ Len(audited') = 1
                /\ audited'[1].action = IF response'.success THEN "validate_success"
                                        ELSE "validate_fail"
       /\ SerialHeartbeatStep("p1")
             => IF response'.success
                THEN audited' = <<AuditEvent("heartbeat", "", FALSE, FALSE)>>
                ELSE audited' = NoAudit
       /\ TrialUpsertStep("p1")
             => IF ~response'.success
                THEN audited' = <<AuditEvent("trial_validate_fail", "trial_expired",
                                             FALSE, FALSE)>>
                ELSE IF response'.first_use
                THEN audited' = <<AuditEvent("trial_start", "", FALSE, FALSE)>>
                ELSE audited' = NoAudit
      ]_vars

\* C18 witness: a heartbeat for a stale row has just been refused, and the step
\* emitted no audit event.
C18_Witness ==
    /\ response = Failure(AllocationExpired)
    /\ audited = NoAudit
    /\ seats # {}

\* C19: whether the audit write of a step that audits succeeds or fails makes no
\* difference to the step: the dict returned, the seat and device tables and the handlers after it
\* are the same, so every step a call takes with the write failing is the step it
\* takes with the write succeeding, and conversely; and a step that audits while
\* the audit table is unreachable does not answer with the route's 500.
C19_AuditFailureChangesNothing ==
    [][audited' # NoAudit =>
          /\ \A k \in LicenseKeys : \A d \in Devices :
                /\ ValidateStart("p1", k, OrgId, d, TRUE)
                      <=> ValidateStart("p1", k, OrgId, d, FALSE)
                /\ Release(k, OrgId, d, TRUE) <=> Release(k, OrgId, d, FALSE)
          /\ ValidateQueryWrite("p1", TRUE) <=> ValidateQueryWrite("p1", FALSE)
          /\ HeartbeatReadUpdate("p1", TRUE) <=> HeartbeatReadUpdate("p1", FALSE)
          /\ TrialUpsert("p1", TRUE) <=> TrialUpsert("p1", FALSE)
          /\ ~audit_up => response'.error # InternalServerError
      ]_vars

\* C19 witness: a validate has just returned an allocation and written its row, in
\* a step whose audit write failed.
C19_Witness ==
    /\ ~audit_up
    /\ audited # NoAudit
    /\ audited[1].action = "validate_success"
    /\ response.success
    /\ \E r \in seats : r.id = response.seat_id

\* The step by which handler p's heartbeat runs its UPDATE and returns.
HeartbeatUpdateStep(p) ==
    procs[p].pc = "heartbeat_update" /\ procs'[p].pc = "idle"

\* C20 as stated: heartbeat never turns a stale allocation into an active one,
\* whatever runs between its liveness check and its UPDATE: a row that is stale at
\* the moment of a heartbeat's write is not active after it.
C20_Original_HeartbeatNeverResurrects ==
    [][\A p \in Procs :
          HeartbeatUpdateStep(p) =>
             \A r \in seats :
                ~Active(r, clock) =>
                   \A r2 \in seats' : r2.id = r.id => ~Active(r2, clock')
      ]_vars

\* C21 as stated: for one device and a finite trial duration, every successful
\* validate_trial reports the same expires_at: what the call that creates the
\* device's row returns (its now_ts + TRIAL_DURATION) is what every continuing call
\* returns afterwards (the stored trial_used_at + TRIAL_DURATION), and a continuing
\* call returns what the row it leaves behind gives to the next one.
C21_Original_SameExpiresAtOnEveryCall ==
    [][\A p \in Procs :
          (/\ TrialUpsertStep(p)
           /\ TRIAL_DURATION_MS # NULL
           /\ trials[p].pc \in {"trial_first", "trial_continue"}
           /\ devices[trials[p].device_id].trial_used_at # NULL
                 \/ devices[trials[p].device_id] = NoDevice)
          => LET d == trials[p].device_id IN
             /\ response'.success
             /\ response'.expires_at
                   = expires_at(trial_start_of(devices'[d]), TRIAL_DURATION_MS)
      ]_vars

\* The six failures validate returns by its own decision.
ValidateFailures ==
    {LicenseNotFound, LicenseInactive, OrgMismatch, NotYetValid, Expired,
     NoSeatsAvailable}

\* C22: a validate that returns a failure returns one of LicenseNotFound,
\* LicenseInactive, OrgMismatch, NotYetValid, Expired, NoSeatsAvailable and leaves the
\* allocation table as it was (no row inserted, updated or deleted, no id consumed);
\* a row appears in the table only in the step of a validate that returns it as a
\* new allocation.
C22_FailedValidateWritesNothing ==
    [][/\ \A k \in LicenseKeys : \A o \in OrgIds : \A d \in Devices :
             (/\ Returns
              /\ ~response'.success
              /\ \/ ValidateStart("p1", k, o, d, audit_up)
                 \/ ValidateQueryWrite("p1", audit_up))
             => /\ response'.error \in ValidateFailures
                /\ seats' = seats
                /\ nextId' = nextId
       /\ (\E r \in seats' : \A r0 \in seats : r0.id # r.id)
             => /\ procs["p1"].pc = "validate_query"
                /\ response' = Allocation(nextId, FALSE)
                /\ \E r \in seats' :
                      /\ r.id = nextId
                      /\ r.device_id = procs["p1"].device_id
                      /\ seats' = seats \cup {r}
      ]_vars

\* C22 witness: a validate has just been refused on the entitlement's status while
\* a device holds an active allocation of that entitlement, still in the table.
C22_Witness ==
    /\ response = Failure(LicenseInactive)
    /\ audited # NoAudit
    /\ \E r \in seats : \E e \in entitlements :
          /\ r.entitlement_id = e.id
          /\ e.status # "active"
          /\ Active(r, clock)

\* Every active row reaches its TTL within the clock range explored.
Healable ==
    \A r \in seats : Active(r, clock) => r.last_heartbeat_at + TTL <= MaxClock

\* The step just taken was a validate or a heartbeat returning success.
Succeeded ==
    /\ audited # NoAudit
    /\ audited[1].action \in {"validate_success", "heartbeat"}

\* The rows of the table before the step that are gone after it.
RowsRemoved == {r \in seats : \A r2 \in seats' : r2.id # r.id}

\* C23: over-allocation is transient.  With time passing, a state in which the
\* entitlement has more active allocations than max_seats is followed by a state in
\* which it has at most max_seats, unless a validate or a heartbeat succeeds first;
\* a step that ends the over-allocation without such a success is the passing of
\* time with the table untouched or a successful release, which removes rows of the
\* released device only; and no step other than a successful release removes a row.
C23_OverAllocationIsTransient ==
    /\ (~WithinSeats(seats, clock) /\ Healable)
          ~> (WithinSeats(seats, clock) \/ Succeeded)
    /\ [][/\ (/\ ~WithinSeats(seats, clock)
              /\ WithinSeats(seats', clock')
              /\ ~Succeeded')
             => \/ clock' > clock /\ seats' = seats
                \/ \E d \in Devices :
                      /\ Release(LicenseKey, OrgId, d, audit_up)
                      /\ response' = Success
                      /\ \A r \in RowsRemoved : r.device_id = d
          /\ RowsRemoved # {}
                => \E d \in Devices :
                      /\ Release(LicenseKey, OrgId, d, audit_up)
                      /\ response' = Success
                      /\ \A r \in RowsRemoved : r.device_id = d
      ]_vars

\* C23 witness: the table holds more rows than max_seats, granted at the same
\* instant to different devices (so all active together until their TTL), all of
\* them now stale and none deleted.
C23_Witness ==
    /\ WithinSeats(seats, clock)
    /\ \E e \in entitlements :
          LET rows == SeatsOfEntitlement(seats, e.id) IN
          /\ Cardinality(rows) > e.max_seats
          /\ \A r, r2 \in rows :
                /\ r.last_heartbeat_at = r2.last_heartbeat_at
                /\ clock - r.last_heartbeat_at >= TTL

\* C24 as stated: with every validate, heartbeat and release one atomic step, after
\* any sequence of calls by any devices, with time passing between them so that
\* seats go stale and devices revalidate, no entitlement has more active
\* allocations than max_seats: no call that runs as one step at one instant (the
\* now it read is the instant of its write) takes an entitlement from at most
\* max_seats active allocations to more, and neither does the passing of time.
C24_Original_SerializedNeverOverMaxSeats ==
    [][(/\ WithinSeats(seats, clock)
        /\ \A p \in Procs :
              (SerialValidateStep(p) \/ SerialHeartbeatStep(p)) => procs[p].now = clock)
       => WithinSeats(seats', clock')
      ]_vars

\* C25 as stated: a validate in its reattach or stale-reclaim branch, or a
\* heartbeat, that returns success has refreshed an existing allocation row, even
\* when a release for the same entitlement and device ran between its read of the
\* row and its UPDATE: the row it read is in the table at the time of the write and
\* carries the call's now as last_heartbeat_at after it.
C25_Original_SuccessMeansRowRefreshed ==
    [][\A p \in Procs :
          (/\ procs[p].pc \in {"validate_reattach", "validate_reclaim",
                               "heartbeat_update"}
           /\ procs'[p].pc = "idle"
           /\ response'.success)
          => \E r \in seats :
                /\ r.id = procs[p].existing
                /\ \E r2 \in seats' :
                      /\ r2.id = r.id
                      /\ r2.last_heartbeat_at = procs[p].now
      ]_vars

\* C26 as stated: for each device, across any interleaving of validate_trial calls,
\* at most one call returns first_use=true, the one that creates the device's row;
\* every other call returns first_use=false or is refused with TrialExpired.
C26_Original_OneFirstUsePerDevice ==
    [][\A p \in Procs :
          (TrialUpsertStep(p) /\ Returns)
          => LET d == trials[p].device_id IN
             IF devices[d] = NoDevice
             THEN response' = TrialSuccess(TRUE, response'.expires_at)
             ELSE \/ response' = TrialSuccess(FALSE, response'.expires_at)
                  \/ response' = TrialFailure(TrialExpired)
      ]_vars
====
